---------------------------- MODULE Spec2Model ----------------------------
(***************************************************************************)
(* A model of the dfa-runner matching core: Program/Instructions           *)
(* (program.rs), Prefix and the PrefixSearchers (prefix.rs), the           *)
(* BacktrackingEngine (backtracking.rs) and the ThreadedEngine             *)
(* (threaded.rs).                                                          *)
(*                                                                         *)
(* Conventions.  Offsets are 0-based as in the source; TLA+ sequences are  *)
(* 1-based, so input[pos] of the source is input[pos + 1] here.            *)
(* Option<T> is a sequence of length at most one: None == << >>,           *)
(* Some(x) == << x >>.  A Rust panic (index out of bounds) is the result   *)
(* tag "Panic".  The sentinels usize::MAX and u32::MAX are the value MAX.  *)
(***************************************************************************)
EXTENDS Integers, Sequences, FiniteSets, TLC

VARIABLES
    strings,    \* the (literal, resume-state) pairs handed to from_strings
    prefix,     \* the Prefix value
    input,      \* the input bytes (the text)
    prog,       \* the Program
    searcher,   \* the PrefixSearcher's own state: cursor pos and Ac iterator
    hist,       \* history: results of search() since construction / last skip_to
    skipped,    \* history: argument of the last skip_to, -1 on a fresh searcher
    pc,         \* control position
    bt,         \* locals of the backtracking engine's call
    th,         \* ThreadedEngine.threads (scratch) and the locals of its call
    ret,        \* results of the two engines' shortest_match
    consulted,  \* history: did the engine call search()/skip_to() on a searcher
    other,      \* the scratch of the engine's clone_box twin, None before clone_box
    calls       \* history: the shortest_match calls made on the engine and its twin

vars == <<strings, prefix, input, prog, searcher, hist, skipped, pc, bt, th,
          ret, consulted, other, calls>>

(***************************************************************************)
(* Bounds                                                                  *)
(***************************************************************************)
\* longest text handed to an engine or a searcher
MaxLen == 4
\* most (literal, resume-state) pairs handed to from_strings
MaxStrings == 3
\* longest literal handed to from_strings
MaxLitLen == 2
\* most shortest_match calls made on an engine and its twin
MaxCalls == 2

\* The bytes that occur in texts and literals: b'a' and b'b'.
Alphabet == {97, 98}

None == << >>
Some(x) == << x >>

\* usize::MAX / u32::MAX, the "no transition" / "not accepting" sentinel.
MAX == -1

RECURSIVE SeqsUpTo(_, _)
SeqsUpTo(S, n) ==
    IF n = 0 THEN {<< >>}
    ELSE LET shorter == SeqsUpTo(S, n - 1)
         IN  shorter \cup {Append(s, x) : s \in {t \in shorter : Len(t) = n - 1}, x \in S}

\* usize::saturating_sub
SaturatingSub(a, b) == IF a >= b THEN a - b ELSE 0

\* &s[from..]
SliceFrom(s, from) == SubSeq(s, from + 1, Len(s))

\* the defaults of the fields a Prefix kind does not carry
NoPrefix == [kind |-> "Empty", byte |-> 0, set |-> {}, lit |-> << >>,
             pats |-> << >>, state_map |-> << >>]

PrefixEmpty == NoPrefix
PrefixByte(b) == [NoPrefix EXCEPT !.kind = "Byte", !.byte = b]
\* Vec<bool> of 256 entries, as the set of the bytes whose entry is true
PrefixByteSet(bs) == [NoPrefix EXCEPT !.kind = "ByteSet", !.set = bs]
PrefixLit(l) == [NoPrefix EXCEPT !.kind = "Lit", !.lit = l]
PrefixLoopWhile(bs) == [NoPrefix EXCEPT !.kind = "LoopWhile", !.set = bs]
\* FullAcAutomaton over the patterns, and the per-pattern resume-state table
PrefixAc(ps, map) == [NoPrefix EXCEPT !.kind = "Ac", !.pats = ps, !.state_map = map]

(***************************************************************************)
(* Prefix::from_strings                                                    *)
(***************************************************************************)
\* it.filter(|x| !x.0.as_ref().is_empty()).collect()
NonEmptyStrings(it) == SelectSeq(it, LAMBDA x : Len(x[1]) > 0)

\* the choice of the kind, from the literals that are left
choose_kind(strs) ==
    LET MinLen == CHOOSE n \in {Len(strs[i][1]) : i \in 1..Len(strs)} :
                      \A i \in 1..Len(strs) : n <= Len(strs[i][1])
    IN  IF Len(strs) = 0 THEN PrefixEmpty
        ELSE IF Len(strs) = 1
             THEN IF Len(strs[1][1]) = 1 THEN PrefixByte(strs[1][1][1])
                  ELSE PrefixLit(strs[1][1])
        ELSE IF MinLen = 1
             THEN PrefixByteSet({strs[i][1][1] : i \in 1..Len(strs)})
        ELSE PrefixAc([i \in 1..Len(strs) |-> strs[i][1]],
                      [i \in 1..Len(strs) |-> strs[i][2]])

\* from_strings without its filter
from_strings_unfiltered(it) == choose_kind(it)

from_strings(it) == choose_kind(NonEmptyStrings(it))

(***************************************************************************)
(* The skip functions (SimpleSkipFn / SkipFn)                              *)
(***************************************************************************)
\* Iterator::position: the least 0-based index among hits, the 1-based
\* indices of s at which the predicate holds
Position(hits) ==
    IF hits = {} THEN None
    ELSE Some((CHOOSE i \in hits : \A j \in hits : i <= j) - 1)

\* memchr::memchr: the offset of the first occurrence of byte b
memchr(b, s) == Position({i \in 1..Len(s) : s[i] = b})

\* does lit occur in s at 0-based offset p
OccursAt(lit, s, p) ==
    /\ p + Len(lit) <= Len(s)
    /\ SubSeq(s, p + 1, p + Len(lit)) = lit

\* a search for the first byte of lit alone
search_in_first_byte(lit, s) ==
    IF lit = << >> THEN Some(0) ELSE Position({i \in 1..Len(s) : s[i] = lit[1]})

\* memmem TwoWaySearcher::search_in: the offset of the first occurrence of lit
search_in(lit, s) ==
    LET hits == {p \in 0..Len(s) : OccursAt(lit, s, p)}
    IN  IF hits = {} THEN None
        ELSE Some(CHOOSE p \in hits : \A q \in hits : p <= q)

simple_skip(pf, s) ==
    CASE pf.kind = "Empty"   -> Some(0)
      [] pf.kind = "Byte"    -> memchr(pf.byte, s)
      [] pf.kind = "Lit"     -> search_in(pf.lit, s)
      [] pf.kind = "ByteSet" -> Position({i \in 1..Len(s) : s[i] \in pf.set})

\* a skip that finds nothing where the run is empty
LoopWhile_skip_nonempty(pf, s) ==
    LET stop == Position({i \in 1..Len(s) : s[i] \notin pf.set})
    IN  IF stop = Some(0) \/ s = << >> THEN None
        ELSE Some(<<0, IF stop = None THEN Len(s) ELSE stop[1]>>)

\* LoopWhile::skip: (0, length of the maximal run of set bytes at the front)
LoopWhile_skip(pf, s) ==
    LET stop == Position({i \in 1..Len(s) : s[i] \notin pf.set})
    IN  Some(<<0, IF stop = None THEN Len(s) ELSE stop[1]>>)

\* SkipFn::skip: Option<(start_off, end_off)>
skip(pf, s) ==
    IF pf.kind = "LoopWhile" THEN LoopWhile_skip(pf, s)
    ELSE LET x == simple_skip(pf, s)
         IN  IF x = None THEN None ELSE Some(<<x[1], x[1]>>)

(***************************************************************************)
(* aho_corasick find_overlapping                                           *)
(***************************************************************************)
\* the 0-based indices of the patterns that end at offset e of s
EndingAt(pats, s, e) ==
    {k \in 0..(Len(pats) - 1) :
        Len(pats[k + 1]) <= e /\ OccursAt(pats[k + 1], s, e - Len(pats[k + 1]))}

\* The output list of the automaton state reached at e: the state's own
\* patterns first, then those of its failure chain, that is longest first and,
\* among equal patterns, in the order given.
RECURSIVE OutOrder(_, _)
OutOrder(pats, ks) ==
    IF ks = {} THEN << >>
    ELSE LET first == CHOOSE k \in ks : \A j \in ks :
                         \/ Len(pats[k + 1]) > Len(pats[j + 1])
                         \/ Len(pats[k + 1]) = Len(pats[j + 1]) /\ k <= j
         IN  <<first>> \o OutOrder(pats, ks \ {first})

\* MatchesOverlapping: every match, by end offset and then in output order;
\* start and end are offsets into the text the iterator was made over.
RECURSIVE MatchesFrom(_, _, _)
MatchesFrom(pats, s, e) ==
    IF e > Len(s) THEN << >>
    ELSE LET out == OutOrder(pats, EndingAt(pats, s, e))
         IN  [i \in 1..Len(out) |->
                 [pati |-> out[i], start |-> e - Len(pats[out[i] + 1]), end |-> e]]
             \o MatchesFrom(pats, s, e + 1)

\* the matches of ms that do not overlap an earlier one that was kept
RECURSIVE NonOverlapping(_, _)
NonOverlapping(ms, from) ==
    IF ms = << >> THEN << >>
    ELSE IF Head(ms).start >= from
         THEN <<Head(ms)>> \o NonOverlapping(Tail(ms), Head(ms).end)
    ELSE NonOverlapping(Tail(ms), from)

\* the iterator of the non-overlapping matches, in place of find_overlapping
find_non_overlapping(pats, s) == NonOverlapping(MatchesFrom(pats, s, 1), 0)

find_overlapping(pats, s) == MatchesFrom(pats, s, 1)

(***************************************************************************)
(* PrefixSearcher: SimpleSearcher and AcSearcher                           *)
(***************************************************************************)
PrefixResult(s, e, st) == [start_pos |-> s, end_pos |-> e, end_state |-> st]

\* Prefix::make_searcher: cursor at 0, the Ac iterator over the whole input
make_searcher(pf, inp) ==
    [pos  |-> 0,
     iter |-> IF pf.kind = "Ac" THEN find_overlapping(pf.pats, inp) ELSE << >>]

\* a search that resumes behind the literal it has found
SimpleSearcher_search_past(pf, inp, sr) ==
    IF sr.pos > Len(inp) THEN [res |-> None, searcher |-> sr]
    ELSE LET off == skip(pf, SliceFrom(inp, sr.pos))
         IN  IF off = None THEN [res |-> None, searcher |-> sr]
             ELSE [res |-> Some(PrefixResult(sr.pos + off[1][1], sr.pos + off[1][2], 0)),
                   searcher |-> [sr EXCEPT !.pos = sr.pos + off[1][2] + Len(pf.lit) + 1]]

\* a search that gives up when the cursor stands at the end of the input
SimpleSearcher_search_strict(pf, inp, sr) ==
    IF sr.pos >= Len(inp) THEN [res |-> None, searcher |-> sr]
    ELSE LET off == skip(pf, SliceFrom(inp, sr.pos))
         IN  IF off = None THEN [res |-> None, searcher |-> sr]
             ELSE [res |-> Some(PrefixResult(sr.pos + off[1][1], sr.pos + off[1][2], 0)),
                   searcher |-> [sr EXCEPT !.pos = sr.pos + off[1][2] + 1]]

\* SimpleSearcher::search: the result and the searcher afterwards
SimpleSearcher_search(pf, inp, sr) ==
    IF sr.pos > Len(inp) THEN [res |-> None, searcher |-> sr]
    ELSE LET off == skip(pf, SliceFrom(inp, sr.pos))
         IN  IF off = None THEN [res |-> None, searcher |-> sr]
             ELSE [res |-> Some(PrefixResult(sr.pos + off[1][1], sr.pos + off[1][2], 0)),
                   searcher |-> [sr EXCEPT !.pos = sr.pos + off[1][2] + 1]]

\* AcSearcher::search: the iterator's next match, as the iterator reports it
AcSearcher_search(pf, inp, sr) ==
    IF sr.iter = << >> THEN [res |-> None, searcher |-> sr]
    ELSE LET mat == Head(sr.iter)
         IN  [res |-> Some(PrefixResult(mat.start, mat.end, pf.state_map[mat.pati + 1])),
              searcher |-> [sr EXCEPT !.iter = Tail(sr.iter)]]

search(pf, inp, sr) ==
    IF pf.kind = "Ac" THEN AcSearcher_search(pf, inp, sr)
    ELSE SimpleSearcher_search(pf, inp, sr)

\* AcSearcher::skip_to: a new iterator over the rest of the input
AcSearcher_skip_to(pf, inp, sr, pos) ==
    [pos  |-> pos,
     iter |-> find_overlapping(pf.pats,
                  IF pos > Len(inp) THEN << >> ELSE SliceFrom(inp, pos))]

\* SimpleSearcher::skip_to
SimpleSearcher_skip_to(pf, inp, sr, pos) == [sr EXCEPT !.pos = pos]

skip_to(pf, inp, sr, pos) ==
    IF pf.kind = "Ac" THEN AcSearcher_skip_to(pf, inp, sr, pos)
    ELSE SimpleSearcher_skip_to(pf, inp, sr, pos)

(***************************************************************************)
(* Program / Instructions (program.rs)                                     *)
(***************************************************************************)
\* InitStates
Anchored(s) == [tag |-> "Anchored", state |-> s]
Constant(s) == [tag |-> "Constant", state |-> s]

\* one 256-entry block of a table, given by its entries at the bytes of Alphabet
Block(a, b) == (97 :> a) @@ (98 :> b)

\* Program<TableInsts>: table is the flat num_states x 256 table, as its rows
TableProgram(ini, rows, acc, eoi) ==
    [init |-> ini, accept_at_eoi |-> eoi,
     instructions |-> [kind |-> "Table", table |-> rows, accept |-> acc,
                       insts |-> << >>, byte_sets |-> << >>, branch_table |-> << >>]]

\* Program<VmInsts>: byte_sets and branch_table are flat, as their 256-blocks
VmProgram(ini, is, sets, branches, eoi) ==
    [init |-> ini, accept_at_eoi |-> eoi,
     instructions |-> [kind |-> "Vm", table |-> << >>, accept |-> << >>,
                       insts |-> is, byte_sets |-> sets, branch_table |-> branches]]

Inst(o, a) == [op |-> o, arg |-> a]

\* v[idx] of a flat Vec made of 256-entry blocks: << >> when out of bounds
FlatGet(blocks, idx) ==
    IF idx < 0 \/ idx \div 256 >= Len(blocks) THEN None
    ELSE Some(blocks[(idx \div 256) + 1][idx % 256])

Panicked == [panic |-> TRUE, next |-> None, accept |-> None]
Stepped(n, a) == [panic |-> FALSE, next |-> n, accept |-> a]

\* TableInsts::step
TableInsts_step(ins, state, byte) ==
    LET cell == FlatGet(ins.table, state * 256 + byte)
    IN  IF state >= Len(ins.accept) \/ cell = None THEN Panicked
        ELSE Stepped(IF cell[1] # MAX THEN Some(cell[1]) ELSE None,
                     IF ins.accept[state + 1] # MAX THEN Some(ins.accept[state + 1])
                     ELSE None)

\* VmInsts::step
VmInsts_step(ins, state, byte) ==
    IF state >= Len(ins.insts) THEN Panicked
    ELSE LET inst == ins.insts[state + 1]
         IN  CASE inst.op = "Acc" -> Stepped(Some(state + 1), Some(inst.arg))
               [] inst.op = "Byte" ->
                    IF inst.arg = byte THEN Stepped(Some(state + 1), None)
                    ELSE Stepped(None, None)
               [] inst.op = "ByteSet" ->
                    LET member == FlatGet(ins.byte_sets, inst.arg + byte)
                    IN  IF member = None THEN Panicked
                        ELSE IF member[1] THEN Stepped(Some(state + 1), None)
                        ELSE Stepped(None, None)
               [] inst.op = "Branch" ->
                    LET next_state == FlatGet(ins.branch_table, inst.arg + byte)
                    IN  IF next_state = None THEN Panicked
                        ELSE IF next_state[1] # MAX
                             THEN Stepped(Some(next_state[1]), None)
                        ELSE Stepped(None, None)

\* Program::step on the first byte of the remaining input
step(p, state, byte) ==
    IF p.instructions.kind = "Table" THEN TableInsts_step(p.instructions, state, byte)
    ELSE VmInsts_step(p.instructions, state, byte)

\* Program::num_states
num_states(p) ==
    IF p.instructions.kind = "Table" THEN Len(p.instructions.accept)
    ELSE Len(p.instructions.insts)

\* check_eoi that accepts in every state
check_eoi_always(p, state) == [panic |-> FALSE, data |-> Some(0)]

\* Program::check_eoi; the accept data, None, or a panic on a bad index
check_eoi(p, state) ==
    IF state >= Len(p.accept_at_eoi) THEN [panic |-> TRUE, data |-> None]
    ELSE [panic |-> FALSE,
          data  |-> IF p.accept_at_eoi[state + 1] # MAX
                    THEN Some(p.accept_at_eoi[state + 1]) ELSE None]

\* InitStates::state_at_pos
state_at_pos(ini, pos) ==
    IF ini.tag = "Anchored" THEN (IF pos = 0 THEN Some(ini.state) ELSE None)
    ELSE Some(ini.state)

\* InitStates::anchored().is_some(), the engine's prog.is_anchored
is_anchored(p) == p.init.tag = "Anchored"

\* the guard without its test
never_no_states(p) == FALSE

\* prog.num_states() == 0, the first test of both shortest_match
has_no_states(p) == num_states(p) = 0

\* the results of shortest_match
ResNone == [tag |-> "None", start |-> 0, end |-> 0]
ResSome(s, e) == [tag |-> "Some", start |-> s, end |-> e]
ResPanic == [tag |-> "Panic", start |-> 0, end |-> 0]
ResPending == [tag |-> "Pending", start |-> 0, end |-> 0]

\* Program::check_empty_match_at_end
check_empty_match_at_end(p, inp) ==
    LET pos == Len(inp)
        st  == state_at_pos(p.init, pos)
    IN  IF st = None THEN ResNone
        ELSE IF st[1] >= Len(p.accept_at_eoi) THEN ResPanic
        ELSE IF p.accept_at_eoi[st[1] + 1] # MAX THEN ResSome(pos, pos)
        ELSE ResNone

(***************************************************************************)
(* BacktrackingEngine (backtracking.rs)                                    *)
(***************************************************************************)
\* what a simulation returns: Option<usize> or a panic, and (history) the
\* acceptance it observed: the scan position and the accept data
SimNone == [tag |-> "None", end |-> 0, seen |-> None]
SimPanic == [tag |-> "Panic", end |-> 0, seen |-> None]
SimSome(e, pos, bytes_ago) == [tag |-> "Some", end |-> e, seen |-> Some(<<pos, bytes_ago>>)]

\* BacktrackingEngine::shortest_match_from
RECURSIVE shortest_match_from(_, _, _, _)
shortest_match_from(p, inp, pos, state) ==
    IF pos < Len(inp)
    THEN LET r == step(p, state, inp[pos + 1])
         IN  IF r.panic THEN SimPanic
             ELSE IF r.accept # None
                  THEN SimSome(SaturatingSub(pos, r.accept[1]), pos, r.accept[1])
             ELSE IF r.next # None THEN shortest_match_from(p, inp, pos + 1, r.next[1])
             ELSE SimNone
    ELSE LET e == check_eoi(p, state)
         IN  IF e.panic THEN SimPanic
             ELSE IF e.data # None
                  THEN SimSome(SaturatingSub(Len(inp), e.data[1]), Len(inp), e.data[1])
             ELSE SimNone

\* the result as the anchored branch makes it: the match starts at 0
MatchOf_from_zero(sim, start) ==
    CASE sim.tag = "Some"  -> ResSome(0, sim.end)
      [] sim.tag = "Panic" -> ResPanic
      [] sim.tag = "None"  -> ResNone

\* the result of the call, from the simulation started for a match at start
MatchOf(sim, start) ==
    CASE sim.tag = "Some"  -> ResSome(start, sim.end)
      [] sim.tag = "Panic" -> ResPanic
      [] sim.tag = "None"  -> ResNone

BtLocals == [res |-> None, seen |-> None]

(***************************************************************************)
(* ThreadedEngine (threaded.rs)                                            *)
(***************************************************************************)
Thread(st, start) == [state |-> st, start_idx |-> start]

\* Threads::with_capacity
Threads_with_capacity(n) == [threads |-> << >>, states |-> [k \in 1..n |-> 0]]

\* an add that pushes the thread without a look at the presence table
Threads_add_always(t, state, start_idx) ==
    IF state >= Len(t.states) THEN [panic |-> TRUE, t |-> t]
    ELSE [panic |-> FALSE,
          t |-> [threads |-> Append(t.threads, Thread(state, start_idx)),
                 states  |-> [t.states EXCEPT ![state + 1] = 1]]]

\* an add that, on a collision, keeps the new thread in place of the old one
Threads_add_replace(t, state, start_idx) ==
    IF state >= Len(t.states) THEN [panic |-> TRUE, t |-> t]
    ELSE IF t.states[state + 1] = 0
         THEN [panic |-> FALSE,
               t |-> [threads |-> Append(t.threads, Thread(state, start_idx)),
                      states  |-> [t.states EXCEPT ![state + 1] = 1]]]
    ELSE [panic |-> FALSE,
          t |-> [t EXCEPT !.threads =
                     [k \in 1..Len(t.threads) |->
                         IF t.threads[k].state = state THEN Thread(state, start_idx)
                         ELSE t.threads[k]]]]

\* Threads::add; panics when state is no index of states
Threads_add(t, state, start_idx) ==
    IF state >= Len(t.states) THEN [panic |-> TRUE, t |-> t]
    ELSE IF t.states[state + 1] = 0
         THEN [panic |-> FALSE,
               t |-> [threads |-> Append(t.threads, Thread(state, start_idx)),
                      states  |-> [t.states EXCEPT ![state + 1] = 1]]]
    ELSE [panic |-> FALSE, t |-> t]

\* Threads::starts_after
starts_after(t, start_idx) ==
    t.threads = << >> \/ t.threads[1].start_idx >= start_idx

\* ProgThreads::with_capacity and the locals of shortest_match_
ThLocals(n) ==
    [cur |-> Threads_with_capacity(n), next |-> Threads_with_capacity(n),
     acc |-> None, pos |-> 0, i |-> 0, seen |-> None]

\* clear that empties the thread lists and leaves the presence bits
ProgThreads_clear_lists(t) ==
    [t EXCEPT !.cur.threads = << >>, !.next.threads = << >>]

\* ProgThreads::clear
ProgThreads_clear(t) ==
    [t EXCEPT !.cur  = Threads_with_capacity(Len(t.cur.states)),
              !.next = Threads_with_capacity(Len(t.next.states))]

\* ProgThreads::swap
ProgThreads_swap(t) ==
    [t EXCEPT !.cur = t.next, !.next = [t.cur EXCEPT !.threads = << >>]]

\* ThreadedEngine::advance_thread for thread i at position t.pos
advance_thread(p, inp, t) ==
    LET thr       == t.cur.threads[t.i + 1]
        state     == thr.state
        start_idx == thr.start_idx
        cleared   == IF state < Len(t.cur.states)
                     THEN [t.cur EXCEPT !.states[state + 1] = 0] ELSE t.cur
        r         == step(p, state, inp[t.pos + 1])
        acc_idx   == SaturatingSub(start_idx, r.accept[1])
        better    == r.accept # None /\ (t.acc = None \/ acc_idx < t.acc[1][1])
        added     == IF r.next # None THEN Threads_add(t.next, r.next[1], start_idx)
                     ELSE [panic |-> FALSE, t |-> t.next]
    IN  IF state >= Len(t.cur.states) \/ r.panic \/ added.panic
        THEN [panic |-> TRUE, t |-> t]
        ELSE [panic |-> FALSE,
              t |-> [t EXCEPT !.cur  = cleared,
                              !.next = added.t,
                              !.acc  = IF better THEN Some(<<acc_idx, t.pos>>) ELSE @,
                              !.seen = IF better THEN Some(<<t.pos, r.accept[1]>>) ELSE @,
                              !.i    = t.i + 1]]

\* a scan that returns the last thread that accepts, not the first
eoi_scan_last(p, inp, threads, k) ==
    LET acc == {j \in k..Len(threads) : /\ ~check_eoi(p, threads[j].state).panic
                                        /\ check_eoi(p, threads[j].state).data # None}
        j == CHOOSE x \in acc : \A y \in acc : y <= x
        d == check_eoi(p, threads[j].state).data[1]
    IN  IF \E x \in k..Len(threads) : check_eoi(p, threads[x].state).panic
        THEN [res |-> ResPanic, seen |-> None]
        ELSE IF acc = {} THEN [res |-> ResNone, seen |-> None]
        ELSE [res  |-> ResSome(threads[j].start_idx, SaturatingSub(Len(inp), d)),
              seen |-> Some(<<Len(inp), d>>)]

\* the scan of the surviving threads at the end of the input
RECURSIVE eoi_scan(_, _, _, _)
eoi_scan(p, inp, threads, k) ==
    IF k > Len(threads) THEN [res |-> ResNone, seen |-> None]
    ELSE LET e == check_eoi(p, threads[k].state)
         IN  IF e.panic THEN [res |-> ResPanic, seen |-> None]
             ELSE IF e.data # None
                  THEN [res  |-> ResSome(threads[k].start_idx,
                                         SaturatingSub(Len(inp), e.data[1])),
                        seen |-> Some(<<Len(inp), e.data[1]>>)]
             ELSE eoi_scan(p, inp, threads, k + 1)

\* the tail of ThreadedEngine::shortest_match: the fallback after no match
ThFallback(p, inp, r) ==
    IF r.tag = "None" THEN check_empty_match_at_end(p, inp) ELSE r

(***************************************************************************)
(* The programs, prefixes and texts the engines are run on                 *)
(***************************************************************************)
Dead == Block(MAX, MAX)

\* no state at all
TableNoStates(ini) == TableProgram(ini, << >>, << >>, << >>)
VmNoStates == VmProgram(Constant(0), << >>, << >>, << >>, << >>)

\* "ab": accepts in state 2, during a step or at the end of the input
TableAb(ini) ==
    TableProgram(ini, <<Block(1, MAX), Block(MAX, 2), Dead>>,
                 <<MAX, MAX, 0>>, <<MAX, MAX, 0>>)

\* "ab" at the end of the input only
TableAbEoi ==
    TableProgram(Constant(0), <<Block(1, MAX), Block(MAX, 2), Dead>>,
                 <<MAX, MAX, MAX>>, <<MAX, MAX, 0>>)

\* "a" confirmed one byte late: the accept data of state 2 is a lookback of 1
TableLookback ==
    TableProgram(Constant(0), <<Block(1, MAX), Block(2, 2), Dead>>,
                 <<MAX, MAX, 1>>, <<MAX, 0, 1>>)

\* a start state that accepts with a positive lookback
TableAcceptStart(ini) ==
    TableProgram(ini, <<Block(0, 0)>>, <<1>>, <<1>>)

\* "b" accepts; "a" leads to a state that loops for ever without accepting
TableLoop ==
    TableProgram(Constant(0), <<Block(1, 2), Block(1, 1), Dead>>,
                 <<MAX, MAX, 0>>, <<MAX, MAX, MAX>>)

\* nothing matches: the start state has no transition
TableDead == TableProgram(Constant(0), <<Dead>>, <<MAX>>, <<MAX>>)

\* "(aa|ab)b", the states after the literals being 2
TableLits ==
    TableProgram(Constant(0), <<Block(1, MAX), Block(2, 2), Block(MAX, 3), Dead>>,
                 <<MAX, MAX, MAX, 0>>, <<MAX, MAX, MAX, 0>>)

\* Byte(a) Byte(b) Acc(0): the Acc is the last instruction
VmAb ==
    VmProgram(Constant(0), <<Inst("Byte", 97), Inst("Byte", 98), Inst("Acc", 0)>>,
              << >>, << >>, <<MAX, MAX, MAX>>)

\* "a*b": a Branch that loops, an Acc, and a Branch without transitions
VmStar ==
    VmProgram(Constant(0), <<Inst("Branch", 0), Inst("Acc", 0), Inst("Branch", 256)>>,
              << >>, <<Block(0, 1), Dead>>, <<MAX, 0, MAX>>)

\* "[b]" with a lookback of 1, by a ByteSet
VmSet ==
    VmProgram(Constant(0), <<Inst("ByteSet", 0), Inst("Acc", 1), Inst("Branch", 0)>>,
              <<Block(FALSE, TRUE)>>, <<Dead>>, <<MAX, 1, MAX>>)

\* every table program of two states whose second state may accept
TwoStateTables ==
    {TableProgram(Constant(0), <<Block(a0, b0), Block(a1, b1)>>, <<MAX, acc>>, <<MAX, eoi>>) :
        a0 \in {MAX, 0, 1}, b0 \in {MAX, 0, 1}, a1 \in {MAX, 0, 1}, b1 \in {MAX, 0, 1},
        acc \in {0, 1}, eoi \in {MAX, 0}}

\* every table program of two states that accepts at the end of the input only,
\* with or without a lookback
TwoStateEoiTables ==
    {TableProgram(Constant(0), <<Block(a0, b0), Block(a1, b1)>>, <<MAX, MAX>>, <<eoi0, eoi1>>) :
        a0 \in {MAX, 0, 1}, b0 \in {MAX, 0, 1}, a1 \in {MAX, 1}, b1 \in {MAX, 1},
        eoi0 \in {MAX, 0}, eoi1 \in {MAX, 0, 1}}

Catalogue ==
    {TableNoStates(Constant(0)), TableNoStates(Anchored(0)), VmNoStates,
     TableAb(Constant(0)), TableAb(Anchored(0)), TableAbEoi, TableLookback,
     TableAcceptStart(Constant(0)), TableAcceptStart(Anchored(0)), TableLoop,
     TableDead, TableLits, VmAb, VmStar, VmSet}

Programs == Catalogue \cup TwoStateTables \cup TwoStateEoiTables

\* the literal sets the prefixes are built from, by from_strings
PrefixStrings ==
    {<< >>,
     << <<(<<98>>), 0>> >>,
     << <<(<<97, 98>>), 0>> >>,
     << <<(<<97>>), 0>>, <<(<<98>>), 0>> >>,
     << <<(<<97, 97>>), 2>>, <<(<<97, 98>>), 2>> >>,
     << <<(<<97, 97>>), 1>>, <<(<<98, 98>>), 1>> >>}

EnginePrefixes ==
    {from_strings(it) : it \in PrefixStrings} \cup {PrefixLoopWhile({97})}

\* for the searchers on their own: also a literal nested inside another one,
\* and two literals with their own resume-states that overlap each other
SearchPrefixes ==
    EnginePrefixes
    \cup {PrefixByteSet({98}), PrefixLit(<<97, 97>>), PrefixLoopWhile({ }),
          from_strings(<< <<(<<98, 98>>), 1>>, <<(<<97, 98, 98, 97>>), 2>> >>),
          from_strings(<< <<(<<97, 98>>), 1>>, <<(<<98, 97>>), 2>> >>)}

Texts == SeqsUpTo(Alphabet, MaxLen)

\* the resume-states of the prefix are states of the program
PrefixFits(p, pf) ==
    \/ num_states(p) = 0
    \/ \A k \in 1..Len(pf.state_map) : pf.state_map[k] < num_states(p)

FreshSearcher == [pos |-> 0, iter |-> << >>]

(***************************************************************************)
(* The engines' runs: BacktrackingEngine::shortest_match and then          *)
(* ThreadedEngine::shortest_match, on the same program, prefix and text    *)
(***************************************************************************)
Init ==
    /\ strings = << >>
    /\ prefix \in EnginePrefixes
    /\ input \in Texts
    /\ prog \in Programs
    /\ PrefixFits(prog, prefix)
    /\ searcher = FreshSearcher
    /\ hist = << >>
    /\ skipped = -1
    /\ pc = "bt_call"
    /\ bt = BtLocals
    /\ th = ThLocals(num_states(prog))
    /\ ret = [bt |-> ResPending, th |-> ResPending]
    /\ consulted = [bt |-> FALSE, th |-> FALSE]
    /\ other = None
    /\ calls = << >>

\* BacktrackingEngine::shortest_match up to the searcher's construction
BtCall ==
    /\ pc = "bt_call"
    /\ IF has_no_states(prog)
       THEN /\ ret' = [ret EXCEPT !.bt = ResNone]
            /\ pc' = "th_call"
            /\ UNCHANGED <<bt, searcher>>
       ELSE IF is_anchored(prog)
       THEN LET sim == shortest_match_from(prog, input, 0, 0)
            IN  /\ ret' = [ret EXCEPT !.bt = MatchOf(sim, 0)]
                /\ bt' = [bt EXCEPT !.seen = sim.seen]
                /\ pc' = "th_call"
                /\ UNCHANGED searcher
       ELSE /\ searcher' = make_searcher(prefix, input)
            /\ pc' = "bt_search"
            /\ UNCHANGED <<bt, ret>>
    /\ UNCHANGED <<other, calls, strings, prefix, input, prog, hist, skipped, th, consulted>>

\* one iteration of the loop of shortest_match_from_searcher
BtCandidate ==
    /\ pc = "bt_search"
    /\ LET s == search(prefix, input, searcher)
       IN  /\ searcher' = s.searcher
           /\ consulted' = [consulted EXCEPT !.bt = TRUE]
           /\ IF s.res = None
              THEN /\ ret' = [ret EXCEPT !.bt = ResNone]
                   /\ pc' = "th_call"
                   /\ UNCHANGED bt
              ELSE LET res == s.res[1]
                       sim == shortest_match_from(prog, input, res.end_pos, res.end_state)
                   IN  /\ bt' = [res |-> s.res, seen |-> sim.seen]
                       /\ IF sim.tag = "None"
                          THEN UNCHANGED <<ret, pc>>
                          ELSE /\ ret' = [ret EXCEPT !.bt = MatchOf(sim, res.start_pos)]
                               /\ pc' = "th_call"
    /\ UNCHANGED <<other, calls, strings, prefix, input, prog, hist, skipped, th>>

\* ThreadedEngine::shortest_match and shortest_match_ up to the loop
ThCall ==
    /\ pc = "th_call"
    /\ IF has_no_states(prog)
       THEN /\ ret' = [ret EXCEPT !.th = ResNone]
            /\ pc' = "done"
            /\ UNCHANGED <<th, searcher, consulted>>
       ELSE LET s == search(prefix, input, make_searcher(prefix, input))
            IN  /\ searcher' = s.searcher
                /\ consulted' = [consulted EXCEPT !.th = TRUE]
                /\ IF s.res = None
                   THEN /\ ret' = [ret EXCEPT !.th = ThFallback(prog, input, ResNone)]
                        /\ th' = [th EXCEPT !.acc = None, !.seen = None]
                        /\ pc' = "done"
                   ELSE /\ th' = [ProgThreads_clear(th) EXCEPT
                                     !.cur.threads = <<Thread(0, s.res[1].start_pos)>>,
                                     !.acc = None, !.seen = None,
                                     !.pos = s.res[1].start_pos, !.i = 0]
                        /\ pc' = "th_loop"
                        /\ UNCHANGED ret
    /\ UNCHANGED <<other, calls, strings, prefix, input, prog, hist, skipped, bt>>

\* one call of advance_thread in the for loop over the current threads
ThAdvance ==
    /\ pc = "th_loop"
    /\ th.pos < Len(input)
    /\ th.i < Len(th.cur.threads)
    /\ LET a == advance_thread(prog, input, th)
       IN  IF a.panic
           THEN /\ ret' = [ret EXCEPT !.th = ResPanic]
                /\ pc' = "done"
                /\ UNCHANGED th
           ELSE /\ th' = a.t
                /\ UNCHANGED <<ret, pc>>
    /\ UNCHANGED <<other, calls, strings, prefix, input, prog, searcher, hist, skipped, bt, consulted>>

\* after the for loop: swap, and the early return
ThSwap ==
    /\ pc = "th_loop"
    /\ th.pos < Len(input)
    /\ th.i = Len(th.cur.threads)
    /\ LET t == ProgThreads_swap(th)
       IN  /\ th' = t
           /\ IF t.acc # None /\ starts_after(t.cur, t.acc[1][1])
              THEN /\ ret' = [ret EXCEPT !.th = ResSome(t.acc[1][1], t.acc[1][2])]
                   /\ pc' = "done"
              ELSE /\ pc' = "th_seed"
                   /\ UNCHANGED ret
    /\ UNCHANGED <<other, calls, strings, prefix, input, prog, searcher, hist, skipped, bt, consulted>>

\* the rest of the loop body: advance pos, re-seed from the searcher or seed
ThSeed ==
    /\ pc = "th_seed"
    /\ LET pos == th.pos + 1
       IN  IF th.cur.threads = << >>
           THEN LET s == search(prefix, input, skip_to(prefix, input, searcher, pos))
                IN  /\ searcher' = s.searcher
                    /\ consulted' = [consulted EXCEPT !.th = TRUE]
                    /\ IF s.res # None
                       THEN /\ th' = [th EXCEPT
                                         !.pos = s.res[1].start_pos,
                                         !.cur = Threads_add(th.cur, 0, s.res[1].start_pos).t,
                                         !.i = 0]
                            /\ pc' = "th_loop"
                            /\ UNCHANGED ret
                       ELSE /\ ret' = [ret EXCEPT !.th = ThFallback(prog, input, ResNone)]
                            /\ th' = [th EXCEPT !.pos = pos]
                            /\ pc' = "done"
           ELSE /\ th' = [th EXCEPT !.pos = pos,
                                    !.cur = Threads_add(th.cur, 0, pos).t,
                                    !.i = 0]
                /\ pc' = "th_loop"
                /\ UNCHANGED <<ret, searcher, consulted>>
    /\ UNCHANGED <<other, calls, strings, prefix, input, prog, hist, skipped, bt>>

\* the loop has ended: the scan at the end of the input, and the fallback
ThEoi ==
    /\ pc = "th_loop"
    /\ th.pos >= Len(input)
    /\ LET e == eoi_scan(prog, input, th.cur.threads, 1)
       IN  /\ ret' = [ret EXCEPT !.th = ThFallback(prog, input, e.res)]
           /\ th' = [th EXCEPT !.seen = e.seen]
    /\ pc' = "done"
    /\ UNCHANGED <<other, calls, strings, prefix, input, prog, searcher, hist, skipped, bt, consulted>>

Next ==
    \/ BtCall
    \/ BtCandidate
    \/ ThCall
    \/ ThAdvance
    \/ ThSwap
    \/ ThSeed
    \/ ThEoi

Spec == Init /\ [][Next]_vars

(***************************************************************************)
(* A searcher on its own: any sequence of search() and skip_to(pos)        *)
(***************************************************************************)
InitSearch ==
    /\ strings = << >>
    /\ prefix \in SearchPrefixes
    /\ input \in Texts
    /\ prog = TableDead
    /\ searcher = make_searcher(prefix, input)
    /\ hist = << >>
    /\ skipped = -1
    /\ pc = "searching"
    /\ bt = BtLocals
    /\ th = ThLocals(0)
    /\ ret = [bt |-> ResPending, th |-> ResPending]
    /\ consulted = [bt |-> FALSE, th |-> FALSE]
    /\ other = None
    /\ calls = << >>

\* PrefixSearcher::search
Search ==
    /\ pc = "searching"
    /\ LET s == search(prefix, input, searcher)
       IN  /\ searcher' = s.searcher
           /\ hist' = IF s.res = None THEN hist ELSE Append(hist, s.res[1])
    /\ UNCHANGED <<other, calls, strings, prefix, input, prog, skipped, pc, bt, th, ret, consulted>>

\* PrefixSearcher::skip_to(pos)
SkipTo ==
    /\ pc = "searching"
    /\ \E pos \in 0..Len(input) :
           /\ searcher' = skip_to(prefix, input, searcher, pos)
           /\ skipped' = pos
    /\ hist' = << >>
    /\ UNCHANGED <<other, calls, strings, prefix, input, prog, pc, bt, th, ret, consulted>>

NextSearch ==
    \/ Search
    \/ SkipTo

SpecSearch == InitSearch /\ [][NextSearch]_vars

(***************************************************************************)
(* Prefix::from_strings on its own                                         *)
(***************************************************************************)
Literals == SeqsUpTo(Alphabet, MaxLitLen)

ResumeStates == {0, 1}

InitStrings ==
    /\ strings \in SeqsUpTo(Literals \X ResumeStates, MaxStrings)
    /\ prefix = PrefixEmpty
    /\ input = << >>
    /\ prog = TableDead
    /\ searcher = FreshSearcher
    /\ hist = << >>
    /\ skipped = -1
    /\ pc = "from_strings"
    /\ bt = BtLocals
    /\ th = ThLocals(0)
    /\ ret = [bt |-> ResPending, th |-> ResPending]
    /\ consulted = [bt |-> FALSE, th |-> FALSE]
    /\ other = None
    /\ calls = << >>

FromStrings ==
    /\ pc = "from_strings"
    /\ prefix' = from_strings(strings)
    /\ pc' = "built"
    /\ UNCHANGED <<other, calls, strings, input, prog, searcher, hist, skipped, bt, th, ret, consulted>>

NextStrings == FromStrings

SpecStrings == InitStrings /\ [][NextStrings]_vars

(***************************************************************************)
(* One ThreadedEngine called again and again, and its clone_box twin       *)
(***************************************************************************)
\* the programs whose matches leave threads and presence bits behind
ReusePrograms ==
    {TableAb(Constant(0)), TableAbEoi, TableLookback, TableLoop, TableLits, VmStar}

\* the texts of the calls: two bytes shorter than the longest text
ReuseTexts == SeqsUpTo(Alphabet, MaxLen - 2)

\* ThreadedEngine.threads: what outlives a call
Scratch(t) == [cur |-> t.cur, next |-> t.next]

InitReuse ==
    /\ strings = << >>
    /\ prefix \in EnginePrefixes
    /\ input = << >>
    /\ prog \in ReusePrograms
    /\ PrefixFits(prog, prefix)
    /\ searcher = FreshSearcher
    /\ hist = << >>
    /\ skipped = -1
    /\ pc = "idle"
    /\ bt = BtLocals
    /\ th = ThLocals(num_states(prog))
    /\ ret = [bt |-> ResPending, th |-> ResPending]
    /\ consulted = [bt |-> FALSE, th |-> FALSE]
    /\ other = None
    /\ calls = << >>

\* the caller hands a text to shortest_match of the engine
Call ==
    /\ pc = "idle"
    /\ Len(calls) < MaxCalls
    /\ \E text \in ReuseTexts :
           /\ input' = text
           /\ calls' = Append(calls, [text |-> text, before |-> Scratch(th),
                                      res |-> ResPending])
    /\ ret' = [ret EXCEPT !.th = ResPending]
    /\ pc' = "th_call"
    /\ UNCHANGED <<other, strings, prefix, prog, searcher, hist, skipped, bt, th, consulted>>

\* shortest_match has returned to the caller
Return ==
    /\ pc = "done"
    /\ calls # << >>
    /\ calls' = [calls EXCEPT ![Len(calls)].res = ret.th]
    /\ pc' = "idle"
    /\ UNCHANGED <<other, strings, prefix, input, prog, searcher, hist, skipped, bt, th, ret,
                   consulted>>

\* clone_box: derive(Clone) copies the RefCell'd ProgThreads into the twin
CloneBox ==
    /\ pc = "idle"
    /\ other = None
    /\ other' = Some(Scratch(th))
    /\ UNCHANGED <<calls, strings, prefix, input, prog, searcher, hist, skipped, pc, bt, th,
                   ret, consulted>>

\* the caller turns to the other one of the engine and its twin
SwitchEngine ==
    /\ pc = "idle"
    /\ other # None
    /\ other' = Some(Scratch(th))
    /\ th' = [th EXCEPT !.cur = other[1].cur, !.next = other[1].next]
    /\ UNCHANGED <<calls, strings, prefix, input, prog, searcher, hist, skipped, pc, bt, ret,
                   consulted>>

NextReuse ==
    \/ Call
    \/ ThCall
    \/ ThAdvance
    \/ ThSwap
    \/ ThSeed
    \/ ThEoi
    \/ Return
    \/ CloneBox
    \/ SwitchEngine

SpecReuse == InitReuse /\ [][NextReuse]_vars

(***************************************************************************)
(* Properties                                                              *)
(***************************************************************************)
Engines == {"bt", "th"}

\* the compiler's side of the contract: every index the program holds is in range
WellFormed(p) ==
    /\ num_states(p) > 0
    /\ Len(p.accept_at_eoi) = num_states(p)
    /\ p.init.state < num_states(p)
    /\ \A st \in 0..(num_states(p) - 1), b \in Alphabet :
           LET r == step(p, st, b)
           IN  ~r.panic /\ (r.next # None => r.next[1] < num_states(p))

\* every accept data of the program is 0: no lookback
NoLookback(p) ==
    /\ \A k \in 1..Len(p.accept_at_eoi) : p.accept_at_eoi[k] \in {MAX, 0}
    /\ \A st \in 0..(num_states(p) - 1), b \in Alphabet :
           step(p, st, b).accept \in {None, Some(0)}

\* the run of the automaton over the text from offset p, started in state 0
RunFrom(p) == shortest_match_from(prog, input, p, 0)

\* the offsets of the text from which the run reaches an acceptance
AcceptingStarts == {p \in 0..Len(input) : RunFrom(p).tag = "Some"}

LeastOf(S) == CHOOSE x \in S : \A y \in S : x <= y

\* C1: whenever either engine returns Some((start, end)), then
\* 0 <= start <= end <= len(text), also with accept data bytes_ago > 0.
C1_SpanWithinText ==
    \A e \in Engines :
        ret[e].tag = "Some" =>
            /\ 0 <= ret[e].start
            /\ ret[e].start <= ret[e].end
            /\ ret[e].end <= Len(input)

\* C2: for an unanchored program without lookback and the Empty prefix, the
\* threaded engine returns the least offset from which a run started in state 0
\* accepts, with the earliest acceptance position of that run, and None only if
\* no offset has an accepting run.
C2_ThreadedLeftmostShortest ==
    (/\ pc = "done"
     /\ WellFormed(prog)
     /\ ~is_anchored(prog)
     /\ NoLookback(prog)
     /\ prefix.kind = "Empty")
    => IF AcceptingStarts = {} THEN ret.th = ResNone
       ELSE LET s == LeastOf(AcceptingStarts)
            IN  ret.th = ResSome(s, RunFrom(s).seen[1][1])

\* C3: when the automaton has a unique match in the text, or none, the two
\* engines built from the same program and prefix return the same result
\* (stated for the unanchored programs and the Empty prefix, which reports
\* every offset).
C3_EnginesAgree ==
    (/\ pc = "done"
     /\ WellFormed(prog)
     /\ ~is_anchored(prog)
     /\ prefix.kind = "Empty"
     /\ Cardinality(AcceptingStarts) <= 1)
    => ret.bt = ret.th

\* C4: for an Anchored program neither engine calls search() or skip_to() on a
\* prefix searcher, and every match returned starts at 0.
C4_AnchoredNeverConsults ==
    is_anchored(prog) =>
        \A e \in Engines :
            /\ ~consulted[e]
            /\ ret[e].tag = "Some" => ret[e].start = 0

\* the acceptance the engine's returned match was made from: (pos, bytes_ago)
SeenBy(e) == IF e = "bt" THEN bt.seen ELSE th.seen

\* C5: in both engines, a match made from an acceptance with data bytes_ago
\* observed at scan position pos has the end max(pos - bytes_ago, 0).
C5_LookbackOnEnd ==
    \A e \in Engines :
        (ret[e].tag = "Some" /\ SeenBy(e) # None) =>
            ret[e].end = SaturatingSub(SeenBy(e)[1][1], SeenBy(e)[1][2])

\* C6: on every iteration of the threaded engine's loop the scan position
\* advances by at least one, also when the iteration re-seeds from the prefix
\* searcher after skip_to, so that the loop ends (stated for the well-formed
\* unanchored programs).
C6_ScanAdvances ==
    [][(pc = "th_seed" /\ WellFormed(prog) /\ ~is_anchored(prog)) => th'.pos > th.pos]_vars

\* C7: the results of successive search() calls on a fresh searcher are
\* non-decreasing in start_pos, and each has end_pos >= start_pos.
C7_SearchOrdered ==
    skipped = -1 =>
        \A i \in 1..Len(hist) :
            /\ hist[i].end_pos >= hist[i].start_pos
            /\ i > 1 => hist[i - 1].start_pos <= hist[i].start_pos

\* the prefix really occurs in the input at the result's offsets
OccursIn(pf, inp, r) ==
    /\ r.start_pos <= r.end_pos
    /\ r.end_pos <= Len(inp)
    /\ CASE pf.kind = "Empty"     -> TRUE
         [] pf.kind = "Byte"      -> r.start_pos < Len(inp) /\ inp[r.start_pos + 1] = pf.byte
         [] pf.kind = "ByteSet"   -> r.start_pos < Len(inp) /\ inp[r.start_pos + 1] \in pf.set
         [] pf.kind = "Lit"       -> OccursAt(pf.lit, inp, r.start_pos)
         [] pf.kind = "LoopWhile" ->
                \A k \in (r.start_pos + 1)..r.end_pos : inp[k] \in pf.set
         [] pf.kind = "Ac"        ->
                \E k \in 1..Len(pf.pats) :
                    /\ r.end_pos = r.start_pos + Len(pf.pats[k])
                    /\ OccursAt(pf.pats[k], inp, r.start_pos)

\* C8: after skip_to(pos), every candidate of the later search() calls starts
\* at or after pos, lies within the input, and is at offsets of the original
\* input at which the prefix occurs.
C8_AfterSkipTo ==
    skipped >= 0 =>
        \A i \in 1..Len(hist) :
            /\ hist[i].start_pos >= skipped
            /\ hist[i].end_pos <= Len(input)
            /\ OccursIn(prefix, input, hist[i])

\* the positions of strings that hold a non-empty literal, in order
RECURSIVE Kept(_, _)
Kept(it, k) ==
    IF k > Len(it) THEN << >>
    ELSE (IF it[k][1] # << >> THEN <<k>> ELSE << >>) \o Kept(it, k + 1)

\* C9: from_strings discards the empty literals and then gives Empty for no
\* literal, Byte for one literal of length 1, Lit for one longer literal,
\* ByteSet of all first bytes for two or more literals of which one has
\* length 1, and otherwise Ac with each literal's resume-state at its index
\* among the non-empty literals.
C9_FromStrings ==
    pc = "built" =>
        LET kept == Kept(strings, 1)
            lit(i) == strings[kept[i]][1]
            n == Len(kept)
        IN  /\ n = 0 => prefix = PrefixEmpty
            /\ (n = 1 /\ Len(lit(1)) = 1) => prefix = PrefixByte(lit(1)[1])
            /\ (n = 1 /\ Len(lit(1)) > 1) => prefix = PrefixLit(lit(1))
            /\ (n >= 2 /\ \E i \in 1..n : Len(lit(i)) = 1) =>
                   /\ prefix.kind = "ByteSet"
                   /\ \A b \in 0..255 : b \in prefix.set <=> \E i \in 1..n : lit(i)[1] = b
            /\ (n >= 2 /\ \A i \in 1..n : Len(lit(i)) >= 2) =>
                   /\ prefix.kind = "Ac"
                   /\ Len(prefix.pats) = n
                   /\ Len(prefix.state_map) = n
                   /\ \A i \in 1..n : /\ prefix.pats[i] = lit(i)
                                      /\ prefix.state_map[i] = strings[kept[i]][2]

\* an Ac prefix was built from strings of which some were empty
C9_Witness ==
    /\ pc = "built"
    /\ prefix.kind = "Ac"
    /\ \E k \in 1..Len(strings) : strings[k][1] = << >>
    /\ \E i, j \in 1..Len(prefix.state_map) : prefix.state_map[i] # prefix.state_map[j]

\* C10: for a program with num_states() = 0 both engines return None, for every
\* text and prefix, with no thread added, no searcher made and no panic.
C10_NoStates ==
    num_states(prog) = 0 =>
        /\ \A e \in Engines : ret[e].tag \in {"Pending", "None"} /\ ~consulted[e]
        /\ th.cur.threads = << >>
        /\ th.next.threads = << >>
        /\ pc = "done" => (ret.bt = ResNone /\ ret.th = ResNone)

\* both engines have returned None on a non-empty text for a program without states
C10_Witness ==
    /\ pc = "done"
    /\ num_states(prog) = 0
    /\ Len(input) > 0
    /\ ret.bt = ResNone
    /\ ret.th = ResNone

\* the program never accepts during a step: no accept entry, no Acc instruction
EoiOnly(p) ==
    /\ \A k \in 1..Len(p.instructions.accept) : p.instructions.accept[k] = MAX
    /\ \A k \in 1..Len(p.instructions.insts) : p.instructions.insts[k].op # "Acc"

\* the state in which the run from (pos, state) stands at len(inp) after
\* consuming every byte, None if it meets a dead transition before
RECURSIVE FinalState(_, _, _, _)
FinalState(p, inp, pos, state) ==
    IF pos >= Len(inp) THEN Some(state)
    ELSE LET r == step(p, state, inp[pos + 1])
         IN  IF r.panic \/ r.next = None THEN None
             ELSE FinalState(p, inp, pos + 1, r.next[1])

\* the run from (pos, state) reaches len(inp) in a state that accepts there
SurvivesToEnd(p, inp, pos, state) ==
    LET f == FinalState(p, inp, pos, state)
    IN  /\ pos <= Len(inp)
        /\ f # None
        /\ f[1] < Len(p.accept_at_eoi)
        /\ p.accept_at_eoi[f[1] + 1] # MAX

Dirty(sc) ==
    \/ sc.cur.threads # << >>
    \/ sc.next.threads # << >>
    \/ \E k \in 1..Len(sc.cur.states) : sc.cur.states[k] # 0
    \/ \E k \in 1..Len(sc.next.states) : sc.next.states[k] # 0

\* C12: the result of ThreadedEngine.shortest_match(text) depends only on the
\* program, the prefix and the text: the first call is made on a freshly
\* constructed engine, and every call on the same text, after any earlier
\* calls on the engine or on its clone_box twin, returns the same result.
C12_ResultIgnoresScratch ==
    /\ calls # << >> => calls[1].before = Scratch(ThLocals(num_states(prog)))
    /\ \A j, k \in 1..Len(calls) :
           (/\ calls[j].text = calls[k].text
            /\ calls[j].res # ResPending
            /\ calls[k].res # ResPending) => calls[j].res = calls[k].res

\* a text matched on the fresh engine was matched again, after clone_box, on a
\* scratch buffer that an earlier call had left with threads in it
C12_Witness ==
    /\ Len(calls) = MaxCalls
    /\ other # None
    /\ calls[MaxCalls].text = calls[1].text
    /\ calls[MaxCalls].res.tag = "Some"
    /\ Dirty(calls[MaxCalls].before)
    /\ calls[MaxCalls].before.cur.threads # << >>

\* the candidate for an occurrence of the k-th literal of an Ac prefix at p
AcResult(pf, k, p) == PrefixResult(p, p + Len(pf.pats[k]), pf.state_map[k])

\* the number of results of the history that equal r
TimesIn(h, r) == Cardinality({i \in 1..Len(h) : h[i] = r})

\* C13: for an Ac prefix (its literals have length >= 2), the results of the
\* successive search() calls on a fresh searcher are occurrences of a literal,
\* with the resume-state paired with it and no result twice, and once the
\* searcher yields no more, every occurrence of every literal in the input,
\* also one that overlaps another, has been reported exactly once.
C13_AcAllOccurrences ==
    (prefix.kind = "Ac" /\ skipped = -1) =>
        /\ \A i \in 1..Len(hist) :
               /\ \E k \in 1..Len(prefix.pats) :
                      /\ hist[i] = AcResult(prefix, k, hist[i].start_pos)
                      /\ OccursAt(prefix.pats[k], input, hist[i].start_pos)
               /\ TimesIn(hist, hist[i]) = 1
        /\ searcher.iter = << >> =>
               \A k \in 1..Len(prefix.pats), p \in 0..Len(input) :
                   OccursAt(prefix.pats[k], input, p) =>
                       TimesIn(hist, AcResult(prefix, k, p)) = 1

\* the searcher is exhausted and has reported two occurrences that overlap
C13_Witness ==
    /\ prefix.kind = "Ac"
    /\ skipped = -1
    /\ searcher.iter = << >>
    /\ Len(hist) >= 3
    /\ \E i, j \in 1..Len(hist) :
           /\ hist[i].start_pos < hist[j].start_pos
           /\ hist[j].start_pos < hist[i].end_pos
           /\ hist[i].end_state # hist[j].end_state

\* C14: for a Lit prefix with literal l, every candidate returned by search()
\* spans the whole literal: end_pos = start_pos + len(l), and the bytes of the
\* input from start_pos to end_pos are l.
C14_LitSpansLiteral ==
    prefix.kind = "Lit" =>
        \A i \in 1..Len(hist) :
            /\ hist[i].end_pos = hist[i].start_pos + Len(prefix.lit)
            /\ OccursAt(prefix.lit, input, hist[i].start_pos)

\* C14, amended: for a Lit prefix with literal l, every candidate returned by
\* search() is the empty span at the start of an occurrence of l: end_pos =
\* start_pos, end_state = 0, and the len(l) bytes of the input from start_pos
\* are l.
C14_LitAtOccurrenceStart ==
    prefix.kind = "Lit" =>
        \A i \in 1..Len(hist) :
            /\ hist[i].end_pos = hist[i].start_pos
            /\ hist[i].end_state = 0
            /\ OccursAt(prefix.lit, input, hist[i].start_pos)

\* a Lit searcher has returned a candidate that is not at the input's start,
\* from an input that holds bytes of the literal before it
C14_Witness ==
    /\ prefix.kind = "Lit"
    /\ Len(prefix.lit) = 2
    /\ hist # << >>
    /\ hist[Len(hist)].start_pos > 0
    /\ input[1] = prefix.lit[1]

\* the searcher has no further candidate
Exhausted == search(prefix, input, searcher).res = None

\* the start offsets reported so far
Starts == {hist[i].start_pos : i \in 1..Len(hist)}

\* C15: for a Lit prefix with literal l, the successive search() calls on a
\* fresh searcher report as start_pos the offsets at which l occurs, in strictly
\* increasing order and without leaving one out, also one that overlaps the
\* occurrence before it (after a match at p the search resumes at p + 1); when
\* no candidate is left every occurrence has been reported.
C15_LitEveryOccurrence ==
    (prefix.kind = "Lit" /\ skipped = -1) =>
        /\ \A i \in 1..Len(hist) :
               /\ OccursAt(prefix.lit, input, hist[i].start_pos)
               /\ i > 1 => hist[i - 1].start_pos < hist[i].start_pos
               /\ \A p \in 0..(hist[i].start_pos - 1) :
                      OccursAt(prefix.lit, input, p) => p \in Starts
        /\ hist # << >> => searcher.pos = hist[Len(hist)].start_pos + 1
        /\ Exhausted =>
               \A p \in 0..Len(input) : OccursAt(prefix.lit, input, p) => p \in Starts

\* a Lit searcher is exhausted after it reported two occurrences that overlap
C15_Witness ==
    /\ prefix.kind = "Lit"
    /\ skipped = -1
    /\ Exhausted
    /\ Len(hist) >= 2
    /\ \E i \in 2..Len(hist) :
           hist[i].start_pos < hist[i - 1].start_pos + Len(prefix.lit)

\* the offsets at which an Empty, Byte or ByteSet prefix matches
MatchesAt(pf, inp, p) ==
    CASE pf.kind = "Empty"   -> p <= Len(inp)
      [] pf.kind = "Byte"    -> p < Len(inp) /\ inp[p + 1] = pf.byte
      [] pf.kind = "ByteSet" -> p < Len(inp) /\ inp[p + 1] \in pf.set

\* C16: for the Empty, Byte and ByteSet prefixes, the successive search() calls
\* on a fresh searcher return the offsets where the prefix matches, each once,
\* in strictly increasing order and without leaving one out, with start_pos =
\* end_pos and end_state = 0; when no candidate is left, every such offset has
\* been returned: every offset 0..len(input) for Empty, every offset of the
\* byte or of a byte of the set for Byte and ByteSet.
C16_SimpleEveryOffset ==
    (prefix.kind \in {"Empty", "Byte", "ByteSet"} /\ skipped = -1) =>
        /\ \A i \in 1..Len(hist) :
               /\ hist[i].end_pos = hist[i].start_pos
               /\ hist[i].end_state = 0
               /\ MatchesAt(prefix, input, hist[i].start_pos)
               /\ i > 1 => hist[i - 1].start_pos < hist[i].start_pos
               /\ \A p \in 0..(hist[i].start_pos - 1) :
                      MatchesAt(prefix, input, p) => p \in Starts
        /\ Exhausted =>
               /\ \A p \in 0..Len(input) : MatchesAt(prefix, input, p) => p \in Starts
               /\ input = << >> =>
                      hist = IF prefix.kind = "Empty" THEN <<PrefixResult(0, 0, 0)>>
                             ELSE << >>

\* an exhausted Empty searcher has returned the offset len(input)
C16_Witness ==
    /\ prefix.kind = "Empty"
    /\ skipped = -1
    /\ Exhausted
    /\ Len(input) >= 2
    /\ Len(hist) = Len(input) + 1
    /\ hist[Len(hist)].start_pos = Len(input)

\* the length of the maximal run of bytes of the set that starts at offset c
RunAt(pf, inp, c) ==
    CHOOSE r \in 0..(Len(inp) - c) :
        /\ \A k \in 1..r : inp[c + k] \in pf.set
        /\ c + r = Len(inp) \/ inp[c + r + 1] \notin pf.set

\* the cursor at which the i-th search() since construction or skip_to started
CursorAt(i) ==
    IF i > 1 THEN hist[i - 1].end_pos + 1
    ELSE IF skipped = -1 THEN 0 ELSE skipped

\* C17: for a LoopWhile prefix, every search() made while the cursor c is at
\* most len(input) returns the span (c, c + r), r being the length of the
\* maximal run of bytes of the set that starts at c (0 when input[c] is not in
\* the set or c = len(input)), and moves the cursor to c + r + 1; over the
\* empty input exactly the result (0, 0) is produced; once the cursor exceeds
\* len(input) no candidate is returned.
C17_LoopWhileRuns ==
    prefix.kind = "LoopWhile" =>
        /\ \A i \in 1..Len(hist) :
               /\ CursorAt(i) <= Len(input)
               /\ hist[i] = PrefixResult(CursorAt(i),
                                         CursorAt(i) + RunAt(prefix, input, CursorAt(i)), 0)
        /\ searcher.pos = CursorAt(Len(hist) + 1)
        /\ Exhausted <=> searcher.pos > Len(input)
        /\ (input = << >> /\ Exhausted) => hist = <<PrefixResult(0, 0, 0)>>

\* an exhausted LoopWhile searcher has returned a run of two bytes or more and,
\* later, an empty run
C17_Witness ==
    /\ prefix.kind = "LoopWhile"
    /\ Exhausted
    /\ \E i, j \in 1..Len(hist) :
           /\ i < j
           /\ hist[i].end_pos >= hist[i].start_pos + 2
           /\ hist[j].end_pos = hist[j].start_pos

\* the results of search() on the searcher sr until it yields no more, in order
RECURSIVE Candidates(_, _, _)
Candidates(pf, inp, sr) ==
    LET s == search(pf, inp, sr)
    IN  IF s.res = None THEN << >>
        ELSE <<s.res[1]>> \o Candidates(pf, inp, s.searcher)

\* the searcher sr after n calls of search()
RECURSIVE AfterSearches(_, _, _, _)
AfterSearches(pf, inp, sr, n) ==
    IF n = 0 THEN sr
    ELSE AfterSearches(pf, inp, search(pf, inp, sr).searcher, n - 1)

\* the single-thread simulation for the candidate c
SimOf(c) == shortest_match_from(prog, input, c.end_pos, c.end_state)

\* C18 (the engine has returned when pc = "th_call"):
\* for an unanchored program the backtracking engine takes the prefix
\* candidates in search() order, simulates each from its end_pos in its
\* end_state, and returns (c.start_pos, end) for the first candidate c whose
\* simulation accepts; a candidate whose simulation dies is abandoned, no
\* candidate after the successful one is examined, and the result is None
\* exactly when no candidate's simulation accepts.
C18_FirstAcceptingCandidate ==
    (WellFormed(prog) /\ ~is_anchored(prog)) =>
        LET cs == Candidates(prefix, input, make_searcher(prefix, input))
            ok == {i \in 1..Len(cs) : SimOf(cs[i]).tag = "Some"}
        IN  /\ (pc = "bt_search" /\ bt.res # None) =>
                   /\ SimOf(bt.res[1]).tag = "None"
                   /\ \E i \in 1..Len(cs) :
                          /\ cs[i] = bt.res[1]
                          /\ \A j \in 1..i : j \notin ok
            /\ pc = "th_call" =>
                   IF ok = {} THEN ret.bt = ResNone
                   ELSE /\ ret.bt = ResSome(cs[LeastOf(ok)].start_pos,
                                            SimOf(cs[LeastOf(ok)]).end)
                        /\ bt.res = Some(cs[LeastOf(ok)])
                        /\ searcher = AfterSearches(prefix, input,
                                           make_searcher(prefix, input), LeastOf(ok))

\* the backtracking engine has returned the match of a candidate that is
\* neither the first nor the last one whose simulation accepts
C18_Witness ==
    /\ pc = "th_call"
    /\ WellFormed(prog)
    /\ ~is_anchored(prog)
    /\ ret.bt.tag = "Some"
    /\ ret.bt.start > 0
    /\ LET cs == Candidates(prefix, input, make_searcher(prefix, input))
       IN  /\ SimOf(cs[1]).tag = "None"
           /\ bt.res # Some(cs[Len(cs)])
           /\ SimOf(cs[Len(cs)]).tag = "Some"

\* the threads of a position have all been stepped: the swap is next
AtSwap == pc = "th_loop" /\ th.pos < Len(input) /\ th.i = Len(th.cur.threads)

\* C19: after the threads of a position have been stepped and the generations
\* swapped, the threaded engine stops and returns the recorded result exactly
\* when there is one and every thread of the new current generation has a
\* start_idx strictly after the result's start; when some surviving thread has
\* start_idx <= the result's start, the scan continues.
C19_EarlyReturn ==
    [][AtSwap =>
          ((pc' = "done" /\ th.acc # None /\ ret'.th = ResSome(th.acc[1][1], th.acc[1][2]))
           <=> (/\ th.acc # None
                /\ \A k \in 1..Len(th'.cur.threads) :
                       th'.cur.threads[k].start_idx > th.acc[1][1]))]_vars

\* no two threads of the generation stand in the same automaton state
OnePerState(t) ==
    \A i, j \in 1..Len(t.threads) : t.threads[i].state = t.threads[j].state => i = j

\* the thread that advance_thread is about to step, and its step
NextThread == th.cur.threads[th.i + 1]
NextStep == step(prog, NextThread.state, input[th.pos + 1])

\* C20: at every point of a threaded match attempt, each of the generations
\* cur and next holds at most one thread per automaton state; advance_thread
\* drops a thread whose next state is already present in next, and appends it,
\* with its start_idx, otherwise.
C20_OneThreadPerState ==
    /\ [](OnePerState(th.cur) /\ OnePerState(th.next))
    /\ [][(/\ pc = "th_loop"
           /\ th.pos < Len(input)
           /\ th.i < Len(th.cur.threads)
           /\ WellFormed(prog)
           /\ NextStep.next # None) =>
              IF \E k \in 1..Len(th.next.threads) :
                     th.next.threads[k].state = NextStep.next[1]
              THEN th'.next = th.next
              ELSE th'.next.threads =
                       Append(th.next.threads,
                              Thread(NextStep.next[1], NextThread.start_idx))]_vars

\* every thread of the position had a transition, and fewer threads than that
\* are in next: one was dropped
C20_Witness ==
    /\ pc = "th_loop"
    /\ th.pos < Len(input)
    /\ th.i = Len(th.cur.threads)
    /\ th.i >= 2
    /\ WellFormed(prog)
    /\ \A k \in 1..th.i :
           step(prog, th.cur.threads[k].state, input[th.pos + 1]).next # None
    /\ Len(th.next.threads) < th.i

\* a VM program whose tables are indexed within bounds and whose Branch
\* tables hold only the sentinel or targets below num_states
VmInRange(p) ==
    /\ p.instructions.kind = "Vm"
    /\ num_states(p) > 0
    /\ Len(p.accept_at_eoi) = num_states(p)
    /\ \A k \in 1..Len(p.instructions.insts), b \in Alphabet :
           LET inst == p.instructions.insts[k]
           IN  /\ inst.op = "ByteSet" =>
                      FlatGet(p.instructions.byte_sets, inst.arg + b) # None
               /\ inst.op = "Branch" =>
                      LET t == FlatGet(p.instructions.branch_table, inst.arg + b)
                      IN  t # None /\ (t[1] = MAX \/ (0 <= t[1] /\ t[1] < num_states(p)))

\* C21: for a VM program whose Branch tables hold only the sentinel or targets
\* below num_states, the step of a thread in a state below num_states returns
\* no next state at or above num_states (an Acc, or a matching Byte or ByteSet,
\* as the last instruction returns no next state), so that no thread of the
\* threaded engine carries a state >= num_states and Threads::add never
\* indexes the presence table out of range.
C21_VmStepInRange ==
    VmInRange(prog) =>
        /\ (pc = "th_loop" /\ th.pos < Len(input) /\ th.i < Len(th.cur.threads)) =>
               /\ NextThread.state < num_states(prog)
               /\ ~NextStep.panic
               /\ NextStep.next # None => NextStep.next[1] < num_states(prog)
        /\ \A k \in 1..Len(th.cur.threads) : th.cur.threads[k].state < num_states(prog)
        /\ \A k \in 1..Len(th.next.threads) : th.next.threads[k].state < num_states(prog)
        /\ ret.th.tag # "Panic"

\* the threads of the current generation whose state accepts at the end of
\* the input
EoiAccepting ==
    {k \in 1..Len(th.cur.threads) :
        /\ th.cur.threads[k].state < Len(prog.accept_at_eoi)
        /\ prog.accept_at_eoi[th.cur.threads[k].state + 1] # MAX}

\* C22: when the threaded scan reaches len(text) without an early return, the
\* engine returns, among the surviving threads whose state accepts at the end
\* of the input, the one with the smallest start_idx, as (start_idx,
\* max(len(text) - bytes_ago, 0)); when no surviving thread accepts there, the
\* scan yields no match and shortest_match returns what
\* check_empty_match_at_end returns.
C22_EoiEarliestThread ==
    [][(pc = "th_loop" /\ th.pos >= Len(input) /\ WellFormed(prog)) =>
          /\ pc' = "done"
          /\ IF EoiAccepting = {}
             THEN ret'.th = check_empty_match_at_end(prog, input)
             ELSE \E k \in EoiAccepting :
                      /\ \A j \in EoiAccepting :
                             th.cur.threads[k].start_idx <= th.cur.threads[j].start_idx
                      /\ ret'.th =
                             ResSome(th.cur.threads[k].start_idx,
                                     SaturatingSub(Len(input),
                                         prog.accept_at_eoi[th.cur.threads[k].state + 1]))]_vars

\* the scan at the end of the input has returned the earlier one of two
\* threads that accept there, a third thread not accepting
C22_Witness ==
    /\ pc = "done"
    /\ WellFormed(prog)
    /\ th.pos >= Len(input)
    /\ th.seen # None
    /\ th.seen[1][1] = Len(input)
    /\ Cardinality(EoiAccepting) >= 2
    /\ Cardinality(EoiAccepting) < Len(th.cur.threads)
    /\ ret.th.tag = "Some"
    /\ ret.th.start = th.cur.threads[LeastOf(EoiAccepting)].start_idx

\* the list of threads is ordered by non-decreasing start_idx
OrderedByStart(ts) ==
    \A k \in 1..(Len(ts) - 1) : ts[k].start_idx <= ts[k + 1].start_idx

\* C23: at every loop head of the threaded engine the thread list of the
\* current generation is ordered by non-decreasing start_idx and every
\* start_idx is at most the scan position, so that threads[0] holds the least
\* start_idx; and when two threads collide on one state, in advance_thread or
\* at the seeding of the next position, the thread kept is the one with the
\* smaller start_idx.
C23_ThreadsOrdered ==
    /\ [](pc = "th_loop" =>
              /\ OrderedByStart(th.cur.threads)
              /\ OrderedByStart(th.next.threads)
              /\ \A k \in 1..Len(th.cur.threads) :
                     /\ th.cur.threads[k].start_idx <= th.pos
                     /\ th.cur.threads[1].start_idx <= th.cur.threads[k].start_idx)
    /\ [][(/\ pc = "th_loop"
           /\ th.pos < Len(input)
           /\ th.i < Len(th.cur.threads)
           /\ WellFormed(prog)
           /\ NextStep.next # None
           /\ \E k \in 1..Len(th.next.threads) :
                  th.next.threads[k].state = NextStep.next[1]) =>
              \A k \in 1..Len(th'.next.threads) :
                  th'.next.threads[k].state = NextStep.next[1] =>
                      th'.next.threads[k].start_idx < NextThread.start_idx]_vars
    /\ [][(/\ pc = "th_seed"
           /\ pc' = "th_loop"
           /\ \E k \in 1..Len(th.cur.threads) : th.cur.threads[k].state = 0) =>
              \A k \in 1..Len(th'.cur.threads) :
                  th'.cur.threads[k].state = 0 => th'.cur.threads[k].start_idx < th'.pos]_vars

\* a loop head with three threads or more whose start offsets leave a gap: a
\* thread started in between has died or was dropped in a collision
C23_Witness ==
    /\ pc = "th_loop"
    /\ th.i = 0
    /\ th.pos < Len(input)
    /\ Len(th.cur.threads) >= 3
    /\ \E k \in 1..(Len(th.cur.threads) - 1) :
           th.cur.threads[k + 1].start_idx > th.cur.threads[k].start_idx + 1

\* C24: an acceptance recorded by the threaded engine is never lost: when acc
\* was set during the scan, shortest_match returns Some, also when the scan
\* reaches the end of the text while a thread that started earlier is still
\* alive and does not accept at end of input.
C24_AcceptanceKept ==
    (pc = "done" /\ WellFormed(prog) /\ th.acc # None) => ret.th.tag = "Some"

=============================================================================
